---- MODULE Spec2Model ----
(***************************************************************************)
(* Model of the ESLint rule `await-interactions`                           *)
(* (src/lib/rules/await-interactions.ts).                                  *)
(*                                                                         *)
(* A parsed file is an arena of nodes numbered in the order the host       *)
(* traverser enters them (pre-order); every node stores the index of its   *)
(* parent (0 = no parent).  Identifier names and literal values are        *)
(* sequences of characters so that String.prototype.startsWith and         *)
(* Array.prototype.includes are computed, not assumed.                     *)
(***************************************************************************)
EXTENDS Integers, Sequences, FiniteSets, TLC

\* ------------------------------------------------------------------------
\* Bounds of the model
\* ------------------------------------------------------------------------
MaxTop == 3      \* top-level items of a file in the event-order family
MaxDepth == 2    \* nested blocks between a function and its statements
MaxCalls == 2    \* statements of a function body in the nesting family
MaxPasses == 3   \* lint passes (analysis, fix, re-analysis ...) per file

\* ------------------------------------------------------------------------
\* Character strings
\* ------------------------------------------------------------------------
s_waitFor == <<"w", "a", "i", "t", "F", "o", "r">>
s_waitForElementToBeRemoved == <<"w", "a", "i", "t", "F", "o", "r", "E", "l", "e", "m", "e", "n", "t", "T", "o", "B", "e", "R", "e", "m", "o", "v", "e", "d">>
s_wait == <<"w", "a", "i", "t">>
s_waitForElement == <<"w", "a", "i", "t", "F", "o", "r", "E", "l", "e", "m", "e", "n", "t">>
s_waitForDomChange == <<"w", "a", "i", "t", "F", "o", "r", "D", "o", "m", "C", "h", "a", "n", "g", "e">>
s_userEvent == <<"u", "s", "e", "r", "E", "v", "e", "n", "t">>
s_play == <<"p", "l", "a", "y">>
s_findBy == <<"f", "i", "n", "d", "B", "y">>
s_findByRole == <<"f", "i", "n", "d", "B", "y", "R", "o", "l", "e">>
s_find == <<"f", "i", "n", "d">>
s_click == <<"c", "l", "i", "c", "k">>
s_expect == <<"e", "x", "p", "e", "c", "t">>
s_toBe == <<"t", "o", "B", "e">>
s_screen == <<"s", "c", "r", "e", "e", "n">>
s_storybookPrefix == <<"@", "s", "t", "o", "r", "y", "b", "o", "o", "k", "/">>
s_storybookTest == <<"@", "s", "t", "o", "r", "y", "b", "o", "o", "k", "/", "t", "e", "s", "t">>
s_storybook == <<"@", "s", "t", "o", "r", "y", "b", "o", "o", "k">>
s_someOtherLib == <<"s", "o", "m", "e", "-", "o", "t", "h", "e", "r", "-", "l", "i", "b">>
s_empty == <<>>

\* String.prototype.startsWith
startsWith(s, p) == Len(s) >= Len(p) /\ SubSeq(s, 1, Len(p)) = p

\* ------------------------------------------------------------------------
\* Tree nodes (the Node type of the parser's ast-spec)
\* ------------------------------------------------------------------------
Mk(kind, name, async) ==
  [kind |-> kind, parent |-> 0, role |-> "root", name |-> name, async |-> async]

WithRole(sub, r) == [sub EXCEPT ![1].role = r]

\* Re-base a subtree that is appended after `off` nodes under the node 1.
Shift(sub, off) ==
  [i \in 1..Len(sub) |->
     [sub[i] EXCEPT !.parent = IF @ = 0 THEN 1 ELSE @ + off]]

RECURSIVE Attach(_, _)
Attach(acc, kids) ==
  IF kids = <<>> THEN acc
  ELSE Attach(acc \o Shift(Head(kids), Len(acc)), Tail(kids))

Tree(root, kids) == Attach(<<root>>, kids)

RoleAll(kids, r) == [i \in 1..Len(kids) |-> WithRole(kids[i], r)]

NewIdentifier(name) == <<Mk("Identifier", name, FALSE)>>
NewLiteral(value) == <<Mk("Literal", value, FALSE)>>
NewMember(obj, prop) ==
  Tree(Mk("MemberExpression", s_empty, FALSE),
       <<WithRole(obj, "object"), WithRole(prop, "property")>>)
NewCall(callee, args) ==
  Tree(Mk("CallExpression", s_empty, FALSE),
       <<WithRole(callee, "callee")>> \o RoleAll(args, "arguments"))
NewNonNull(e) ==
  Tree(Mk("TSNonNullExpression", s_empty, FALSE), <<WithRole(e, "expression")>>)
NewAwait(e) ==
  Tree(Mk("AwaitExpression", s_empty, FALSE), <<WithRole(e, "argument")>>)
NewReturn(e) ==
  Tree(Mk("ReturnStatement", s_empty, FALSE), <<WithRole(e, "argument")>>)
NewExprStmt(e) ==
  Tree(Mk("ExpressionStatement", s_empty, FALSE), <<WithRole(e, "expression")>>)
NewBlock(stmts) ==
  Tree(Mk("BlockStatement", s_empty, FALSE), RoleAll(stmts, "body"))
NewFunction(kind, async, body) ==
  Tree(Mk(kind, s_empty, async), <<WithRole(body, "body")>>)
NewImport(source) ==
  Tree(Mk("ImportDeclaration", s_empty, FALSE),
       <<WithRole(NewLiteral(source), "source")>>)
NewProgram(items) ==
  Tree(Mk("Program", s_empty, FALSE), RoleAll(items, "body"))

\* The child of node n in slot r, or 0.
Child(t, n, r) ==
  IF \E c \in 1..Len(t) : t[c].parent = n /\ t[c].role = r
  THEN CHOOSE c \in 1..Len(t) : t[c].parent = n /\ t[c].role = r
  ELSE 0

Parent(t, n) == IF n = 0 THEN 0 ELSE t[n].parent

\* ------------------------------------------------------------------------
\* Node predicates (../utils/ast)
\* ------------------------------------------------------------------------
isKind(t, n, k) == n # 0 /\ t[n].kind = k
isMemberExpression(t, n) == isKind(t, n, "MemberExpression")
isIdentifier(t, n) == isKind(t, n, "Identifier")
isAwaitExpression(t, n) == isKind(t, n, "AwaitExpression")
isCallExpression(t, n) == isKind(t, n, "CallExpression")
isArrowFunctionExpression(t, n) == isKind(t, n, "ArrowFunctionExpression")
isReturnStatement(t, n) == isKind(t, n, "ReturnStatement")
isTSNonNullExpression(t, n) == isKind(t, n, "TSNonNullExpression")
isFunctionDeclaration(t, n) == isKind(t, n, "FunctionDeclaration")
isFunctionExpression(t, n) == isKind(t, n, "FunctionExpression")
isProgram(t, n) == isKind(t, n, "Program")

\* ------------------------------------------------------------------------
\* Helpers of create()
\* ------------------------------------------------------------------------
FUNCTIONS_TO_BE_AWAITED ==
  {s_waitFor, s_waitForElementToBeRemoved, s_wait, s_waitForElement,
   s_waitForDomChange, s_userEvent, s_play}

\* Variant: exact names only, the prefix test on 'findBy' became an equality.
shouldAwait_ExactOnly(name) ==
  name \in FUNCTIONS_TO_BE_AWAITED \/ name = s_findBy

shouldAwait(name) ==
  name \in FUNCTIONS_TO_BE_AWAITED \/ startsWith(name, s_findBy)

\* Variant: the expect-chain branch is missing, so that a property of an
\* expect chain is matched by the tracked-name test only.
getMethodThatShouldBeAwaited_NoExpectBranch(t, expr) ==
  LET callee == Child(t, expr, "callee")
      object == Child(t, callee, "object")
      property == Child(t, callee, "property")
      inner == Child(t, callee, "expression")
      innerProperty == Child(t, inner, "property")
  IN
  IF isArrowFunctionExpression(t, Parent(t, expr))
       \/ isReturnStatement(t, Parent(t, expr))
    THEN 0
  ELSE IF isMemberExpression(t, callee) /\ isIdentifier(t, object)
            /\ shouldAwait(t[object].name)
    THEN object
  ELSE IF isTSNonNullExpression(t, callee) /\ isMemberExpression(t, inner)
            /\ isIdentifier(t, innerProperty)
            /\ shouldAwait(t[innerProperty].name)
    THEN innerProperty
  ELSE IF isMemberExpression(t, callee) /\ isIdentifier(t, property)
            /\ shouldAwait(t[property].name)
    THEN property
  ELSE IF isIdentifier(t, callee) /\ shouldAwait(t[callee].name)
    THEN callee
  ELSE 0

\* Returns the identifier node responsible for the match, or 0 (null).
getMethodThatShouldBeAwaited(t, expr) ==
  LET callee == Child(t, expr, "callee")
      object == Child(t, callee, "object")
      property == Child(t, callee, "property")
      inner == Child(t, callee, "expression")
      innerProperty == Child(t, inner, "property")
      objectCallee == Child(t, object, "callee")
  IN
  IF isArrowFunctionExpression(t, Parent(t, expr))
       \/ isReturnStatement(t, Parent(t, expr))
    THEN 0
  ELSE IF isMemberExpression(t, callee) /\ isIdentifier(t, object)
            /\ shouldAwait(t[object].name)
    THEN object
  ELSE IF isTSNonNullExpression(t, callee) /\ isMemberExpression(t, inner)
            /\ isIdentifier(t, innerProperty)
            /\ shouldAwait(t[innerProperty].name)
    THEN innerProperty
  ELSE IF isMemberExpression(t, callee) /\ isIdentifier(t, property)
            /\ shouldAwait(t[property].name)
    THEN property
  ELSE IF isMemberExpression(t, callee) /\ isCallExpression(t, object)
            /\ isIdentifier(t, objectCallee) /\ isIdentifier(t, property)
            /\ t[objectCallee].name = s_expect
    THEN property
  ELSE IF isIdentifier(t, callee) /\ shouldAwait(t[callee].name)
    THEN callee
  ELSE 0

\* Variant: function expressions are not recognised as functions.
RECURSIVE getClosestFunctionAncestor_NoFunctionExpression(_, _)
getClosestFunctionAncestor_NoFunctionExpression(t, node) ==
  LET parent == Parent(t, node) IN
  IF parent = 0 \/ isProgram(t, parent) THEN 0
  ELSE IF isArrowFunctionExpression(t, parent)
            \/ isFunctionDeclaration(t, parent)
    THEN parent
  ELSE getClosestFunctionAncestor_NoFunctionExpression(t, parent)

\* Returns the nearest enclosing function node, or 0 (undefined).
RECURSIVE getClosestFunctionAncestor(_, _)
getClosestFunctionAncestor(t, node) ==
  LET parent == Parent(t, node) IN
  IF parent = 0 \/ isProgram(t, parent) THEN 0
  ELSE IF isArrowFunctionExpression(t, parent)
            \/ isFunctionExpression(t, parent)
            \/ isFunctionDeclaration(t, parent)
    THEN parent
  ELSE getClosestFunctionAncestor(t, parent)

isExpectFromStorybookImported(t, node) ==
  startsWith(t[Child(t, node, "source")].name, s_storybookPrefix)

\* ------------------------------------------------------------------------
\* Text insertions of the fixer, as seen by the next parse
\* ------------------------------------------------------------------------
\* `await ` is a prefix operator: it binds looser than the postfix forms
\* (member access, call, non-null assertion), so the operand of the await
\* that the inserted text creates is the whole postfix chain that starts at
\* the target node.
RECURSIVE PostfixHead(_, _)
PostfixHead(t, n) ==
  LET p == Parent(t, n) IN
  IF p # 0 /\ ( (isMemberExpression(t, p) /\ t[n].role = "object")
             \/ (isCallExpression(t, p) /\ t[n].role = "callee")
             \/ (isTSNonNullExpression(t, p) /\ t[n].role = "expression") )
    THEN PostfixHead(t, p)
  ELSE n

\* Index of an old node once a node has been inserted at index h.
Remap(h, i) == IF i >= h THEN i + 1 ELSE i

\* A new AwaitExpression takes the place of node h; h becomes its argument.
InsertAwaitAbove(t, h) ==
  [i \in 1..(Len(t) + 1) |->
     IF i < h THEN t[i]
     ELSE IF i = h
       THEN [kind |-> "AwaitExpression", parent |-> t[h].parent,
             role |-> t[h].role, name |-> s_empty, async |-> FALSE]
     ELSE IF i = h + 1
       THEN [t[h] EXCEPT !.parent = h, !.role = "argument"]
     ELSE [t[i - 1] EXCEPT !.parent = Remap(h, @)]]

insertTextBefore(t, target, text) ==
  IF text = "async " THEN [t EXCEPT ![target].async = TRUE]
  ELSE InsertAwaitAbove(t, PostfixHead(t, target))

RECURSIVE ApplyInsertions(_, _)
ApplyInsertions(t, fix) ==
  IF fix = <<>> THEN t
  ELSE ApplyInsertions(insertTextBefore(t, Head(fix).target, Head(fix).text),
                       Tail(fix))

\* ------------------------------------------------------------------------
\* Files under analysis
\* ------------------------------------------------------------------------
SeqsUpTo(S, n) == UNION {[1..k -> S] : k \in 1..n}

Names ==
  FUNCTIONS_TO_BE_AWAITED
    \cup {s_findBy, s_findByRole, s_find, s_click, s_expect, s_toBe, s_screen}

ObjectNames == {s_userEvent, s_screen, s_findByRole}
InnerCallees == {s_expect, s_findByRole, s_click}

\* Callee shapes of a call expression.
Callees ==
  {NewIdentifier(x) : x \in Names}
    \cup {NewMember(NewIdentifier(o), NewIdentifier(p)) :
            o \in ObjectNames, p \in Names}
    \cup {NewMember(NewIdentifier(o), NewLiteral(s_click)) : o \in ObjectNames}
    \cup {NewNonNull(NewMember(NewIdentifier(o), NewIdentifier(p))) :
            o \in ObjectNames, p \in Names}
    \cup {NewNonNull(NewIdentifier(p)) : p \in Names}
    \cup {NewMember(NewCall(NewIdentifier(f), <<>>), NewIdentifier(p)) :
            f \in InnerCallees, p \in Names}
    \cup {NewMember(NewCall(NewIdentifier(f), <<>>), NewLiteral(s_click)) :
            f \in InnerCallees}
    \cup {NewMember(NewMember(NewIdentifier(s_screen), NewIdentifier(o)),
                    NewIdentifier(p)) : o \in ObjectNames, p \in Names}
    \cup {NewMember(NewCall(NewMember(NewIdentifier(s_screen),
                                      NewIdentifier(s_expect)), <<>>),
                    NewIdentifier(p)) : p \in Names}

Wrappers ==
  {"stmt", "await", "nonnull", "nonnull-await", "member-await", "return",
   "return-await", "arrow", "chain", "chain-await"}

\* A top-level item that holds the expression e in the given position.
Wrap(w, e) ==
  CASE w = "stmt" -> NewExprStmt(e)
    [] w = "await" -> NewExprStmt(NewAwait(e))
    [] w = "nonnull" -> NewExprStmt(NewNonNull(e))
    [] w = "nonnull-await" -> NewExprStmt(NewAwait(NewNonNull(e)))
    [] w = "member-await" ->
         NewExprStmt(NewAwait(NewMember(e, NewIdentifier(s_click))))
    [] w = "return" ->
         NewFunction("FunctionDeclaration", FALSE, NewBlock(<<NewReturn(e)>>))
    [] w = "return-await" ->
         NewFunction("FunctionDeclaration", TRUE,
                     NewBlock(<<NewReturn(NewAwait(e))>>))
    [] w = "arrow" ->
         NewExprStmt(NewFunction("ArrowFunctionExpression", FALSE, e))
    [] w = "chain" ->
         NewExprStmt(NewCall(NewMember(e, NewIdentifier(s_click)), <<>>))
    [] w = "chain-await" ->
         NewExprStmt(NewAwait(NewCall(NewMember(e, NewIdentifier(s_click)),
                                      <<>>)))

\* One call expression of every shape in every position.
ShapeFiles ==
  {NewProgram(<<Wrap(w, NewCall(c, <<>>))>>) : w \in Wrappers, c \in Callees}

Sources == {s_storybookTest, s_storybookPrefix, s_storybook, s_someOtherLib}

TopItems ==
  {NewImport(src) : src \in Sources}
    \cup {NewExprStmt(NewCall(NewIdentifier(s_play), <<>>)),
          NewExprStmt(NewAwait(NewCall(NewIdentifier(s_waitFor), <<>>))),
          NewExprStmt(NewCall(NewIdentifier(s_click), <<>>)),
          NewExprStmt(NewCall(NewMember(NewIdentifier(s_userEvent),
                                        NewIdentifier(s_click)), <<>>))}

\* Imports and calls in every order.
OrderFiles == {NewProgram(items) : items \in SeqsUpTo(TopItems, MaxTop)}

FunctionKinds ==
  {"ArrowFunctionExpression", "FunctionExpression", "FunctionDeclaration"}

InnerFunctions ==
  {<<"ArrowFunctionExpression", FALSE>>, <<"FunctionExpression", TRUE>>}

BodyItems ==
  {NewExprStmt(NewCall(NewIdentifier(s_play), <<>>)),
   NewExprStmt(NewCall(NewMember(NewIdentifier(s_userEvent),
                                 NewIdentifier(s_click)), <<>>)),
   NewExprStmt(NewAwait(NewCall(NewIdentifier(s_waitFor), <<>>))),
   NewExprStmt(NewCall(NewMember(NewCall(NewIdentifier(s_findByRole), <<>>),
                                 NewIdentifier(s_click)), <<>>))}
    \cup {NewExprStmt(NewCall(NewIdentifier(s_waitFor),
            <<NewFunction(f[1], f[2],
                NewBlock(<<NewExprStmt(NewCall(NewIdentifier(s_play),
                                               <<>>))>>))>>)) :
            f \in InnerFunctions}

RECURSIVE Nest(_, _)
Nest(d, stmts) == IF d = 0 THEN stmts ELSE <<NewBlock(Nest(d - 1, stmts))>>

\* Statements at any depth inside a function.
NestedFiles ==
  {NewProgram(<<NewExprStmt(NewFunction(k, a, NewBlock(Nest(d, body))))>>) :
     k \in FunctionKinds, a \in BOOLEAN, d \in 0..MaxDepth,
     body \in SeqsUpTo(BodyItems, MaxCalls)}

Files == ShapeFiles \cup OrderFiles \cup NestedFiles

\* ------------------------------------------------------------------------
\* State
\* ------------------------------------------------------------------------
VARIABLES
  tree,                            \* the parsed file
  pc,                              \* "walk" or "done" (after Program:exit)
  pos,                             \* last node the traverser has entered
  isImportingFromStorybookExpect,  \* the gate flag
  invocationsThatShouldBeAwaited,  \* the violation queue
  visit,                           \* node and result of the last call visit
  reports,                         \* context.report calls of this pass
  pass,                            \* number of the lint pass
  fixed                            \* call sites whose fix has been applied

vars ==
  <<tree, pc, pos, isImportingFromStorybookExpect,
    invocationsThatShouldBeAwaited, visit, reports, pass, fixed>>

\* The next node for which the rule registers a handler, or 0.
NextVisit(t, p) ==
  LET H == {i \in (p + 1)..Len(t) :
              t[i].kind \in {"ImportDeclaration", "CallExpression"}}
  IN IF H = {} THEN 0 ELSE CHOOSE i \in H : \A j \in H : i <= j

Init ==
  /\ tree \in Files
  /\ pc = "walk"
  /\ pos = 0
  /\ isImportingFromStorybookExpect = TRUE
  /\ invocationsThatShouldBeAwaited = <<>>
  /\ visit = [node |-> 0, method |-> 0]
  /\ reports = <<>>
  /\ pass = 1
  /\ fixed = {}

\* Variant: the flag follows the last import instead of only going down.
ImportDeclaration_LastWins ==
  LET node == NextVisit(tree, pos) IN
  /\ pc = "walk"
  /\ node # 0
  /\ tree[node].kind = "ImportDeclaration"
  /\ isImportingFromStorybookExpect' =
       isExpectFromStorybookImported(tree, node)
  /\ pos' = node
  /\ UNCHANGED <<tree, pc, invocationsThatShouldBeAwaited, visit, reports,
                 pass, fixed>>

ImportDeclaration ==
  LET node == NextVisit(tree, pos) IN
  /\ pc = "walk"
  /\ node # 0
  /\ tree[node].kind = "ImportDeclaration"
  /\ isImportingFromStorybookExpect' =
       IF ~isExpectFromStorybookImported(tree, node) THEN FALSE
       ELSE isImportingFromStorybookExpect
  /\ pos' = node
  /\ UNCHANGED <<tree, pc, invocationsThatShouldBeAwaited, visit, reports,
                 pass, fixed>>

\* Variant: a classified call is queued whether it is awaited or not.
CallExpression_NoAwaitCheck ==
  LET node == NextVisit(tree, pos)
      method == getMethodThatShouldBeAwaited(tree, node)
  IN
  /\ pc = "walk"
  /\ node # 0
  /\ tree[node].kind = "CallExpression"
  /\ invocationsThatShouldBeAwaited' =
       IF method # 0
       THEN Append(invocationsThatShouldBeAwaited,
                   [node |-> node, method |-> method])
       ELSE invocationsThatShouldBeAwaited
  /\ visit' = [node |-> node, method |-> method]
  /\ pos' = node
  /\ UNCHANGED <<tree, pc, isImportingFromStorybookExpect, reports, pass,
                 fixed>>

\* Variant: only the parent is tested for an await, not the grandparent.
CallExpression_ParentOnly ==
  LET node == NextVisit(tree, pos)
      method == getMethodThatShouldBeAwaited(tree, node)
  IN
  /\ pc = "walk"
  /\ node # 0
  /\ tree[node].kind = "CallExpression"
  /\ invocationsThatShouldBeAwaited' =
       IF method # 0 /\ ~isAwaitExpression(tree, Parent(tree, node))
       THEN Append(invocationsThatShouldBeAwaited,
                   [node |-> node, method |-> method])
       ELSE invocationsThatShouldBeAwaited
  /\ visit' = [node |-> node, method |-> method]
  /\ pos' = node
  /\ UNCHANGED <<tree, pc, isImportingFromStorybookExpect, reports, pass,
                 fixed>>

CallExpression ==
  LET node == NextVisit(tree, pos)
      method == getMethodThatShouldBeAwaited(tree, node)
  IN
  /\ pc = "walk"
  /\ node # 0
  /\ tree[node].kind = "CallExpression"
  /\ invocationsThatShouldBeAwaited' =
       IF method # 0 /\ ~isAwaitExpression(tree, Parent(tree, node))
            /\ ~isAwaitExpression(tree, Parent(tree, Parent(tree, node)))
       THEN Append(invocationsThatShouldBeAwaited,
                   [node |-> node, method |-> method])
       ELSE invocationsThatShouldBeAwaited
  /\ visit' = [node |-> node, method |-> method]
  /\ pos' = node
  /\ UNCHANGED <<tree, pc, isImportingFromStorybookExpect, reports, pass,
                 fixed>>

\* Variant: the marker is inserted before any enclosing function, asynchronous
\* or not.
fixFn_AlwaysAsync(t, node) ==
  LET parentFnNode == getClosestFunctionAncestor(t, node)
  IN <<[target |-> node, text |-> "await "]>>
       \o (IF parentFnNode # 0
           THEN <<[target |-> parentFnNode, text |-> "async "]>>
           ELSE <<>>)

\* Variant: the marker is never inserted.
fixFn_NeverAsync(t, node) == <<[target |-> node, text |-> "await "]>>

\* fixFn of one queued invocation
fixFn(t, node) ==
  LET parentFnNode == getClosestFunctionAncestor(t, node)
      parentFnNeedsAsync == parentFnNode # 0 /\ ~t[parentFnNode].async
  IN <<[target |-> node, text |-> "await "]>>
       \o (IF parentFnNeedsAsync
           THEN <<[target |-> parentFnNode, text |-> "async "]>>
           ELSE <<>>)

\* context.report of one queued invocation
Report(t, inv) ==
  [node |-> inv.node,
   messageId |-> "interactionShouldBeAwaited",
   method |-> t[inv.method].name,
   fix |-> fixFn(t, inv.node),
   suggest |-> <<[messageId |-> "fixSuggestion", fix |-> fixFn(t, inv.node)]>>]

\* Variant: the queue is reported without looking at the gate flag.
ProgramExit_IgnoresGate ==
  /\ pc = "walk"
  /\ NextVisit(tree, pos) = 0
  /\ reports' =
       [i \in 1..Len(invocationsThatShouldBeAwaited) |->
          Report(tree, invocationsThatShouldBeAwaited[i])]
  /\ pc' = "done"
  /\ pos' = Len(tree)
  /\ UNCHANGED <<tree, isImportingFromStorybookExpect,
                 invocationsThatShouldBeAwaited, visit, pass, fixed>>

ProgramExit ==
  /\ pc = "walk"
  /\ NextVisit(tree, pos) = 0
  /\ reports' =
       IF isImportingFromStorybookExpect
            /\ Len(invocationsThatShouldBeAwaited) # 0
       THEN [i \in 1..Len(invocationsThatShouldBeAwaited) |->
               Report(tree, invocationsThatShouldBeAwaited[i])]
       ELSE <<>>
  /\ pc' = "done"
  /\ pos' = Len(tree)
  /\ UNCHANGED <<tree, isImportingFromStorybookExpect,
                 invocationsThatShouldBeAwaited, visit, pass, fixed>>

\* The host applies the fix of one report and lints the patched file again:
\* create() runs anew on the new parse.
ApplyFix ==
  /\ pc = "done"
  /\ pass < MaxPasses
  /\ \E d \in 1..Len(reports) :
       LET h == PostfixHead(tree, reports[d].node) IN
       /\ tree' = ApplyInsertions(tree, reports[d].fix)
       /\ fixed' = {Remap(h, c) : c \in fixed \cup {reports[d].node}}
  /\ pc' = "walk"
  /\ pos' = 0
  /\ isImportingFromStorybookExpect' = TRUE
  /\ invocationsThatShouldBeAwaited' = <<>>
  /\ visit' = [node |-> 0, method |-> 0]
  /\ reports' = <<>>
  /\ pass' = pass + 1

Next == ImportDeclaration \/ CallExpression \/ ProgramExit \/ ApplyFix

Spec == Init /\ [][Next]_vars

\* ------------------------------------------------------------------------
\* Vocabulary of the properties
\* ------------------------------------------------------------------------
Nodes == 1..Len(tree)
CallNodes == {n \in Nodes : tree[n].kind = "CallExpression"}
ImportNodes == {n \in Nodes : tree[n].kind = "ImportDeclaration"}

SourceOf(n) ==
  LET L == {c \in Nodes : tree[c].parent = n /\ tree[c].kind = "Literal"}
  IN tree[CHOOSE c \in L : TRUE].name

Disqualifying(n) ==
  LET src == SourceOf(n) IN
  \/ Len(src) < 11
  \/ \E k \in 1..11 : src[k] # s_storybookPrefix[k]

KindOfParent(n) == IF tree[n].parent = 0 THEN "none" ELSE tree[tree[n].parent].kind
KindOfGrandparent(n) ==
  IF tree[n].parent = 0 \/ tree[tree[n].parent].parent = 0 THEN "none"
  ELSE tree[tree[tree[n].parent].parent].kind

AwaitedPosition(n) ==
  KindOfParent(n) = "AwaitExpression" \/ KindOfGrandparent(n) = "AwaitExpression"

ReturnPosition(n) ==
  KindOfParent(n) \in {"ArrowFunctionExpression", "ReturnStatement"}

Queued(n) ==
  \E i \in 1..Len(invocationsThatShouldBeAwaited) :
    invocationsThatShouldBeAwaited[i].node = n

ReportsAt(n) == {i \in 1..Len(reports) : reports[i].node = n}

RECURSIVE ProperAncestors(_)
ProperAncestors(n) ==
  IF tree[n].parent = 0 THEN {}
  ELSE {tree[n].parent} \cup ProperAncestors(tree[n].parent)

FunctionAncestors(n) ==
  {a \in ProperAncestors(n) : tree[a].kind \in FunctionKinds}

\* Ancestors have smaller indices than their descendants, so the nearest
\* ancestor of a set is its largest member.
Nearest(S) == IF S = {} THEN 0 ELSE CHOOSE a \in S : \A b \in S : b <= a

AsyncInsertions(i) ==
  {k \in 1..Len(reports[i].fix) : reports[i].fix[k].text = "async "}

AwaitInsertions(i) ==
  {k \in 1..Len(reports[i].fix) : reports[i].fix[k].text = "await "}

TrackedName(name) ==
  \/ name \in {s_waitFor, s_waitForElementToBeRemoved, s_wait,
               s_waitForElement, s_waitForDomChange, s_userEvent, s_play}
  \/ (Len(name) >= 6 /\ \A k \in 1..6 : name[k] = s_findBy[k])

CalleeOf(n) == Nearest({c \in Nodes : tree[c].parent = n /\ tree[c].role = "callee"})
SlotOf(n, r) == Nearest({c \in Nodes : tree[c].parent = n /\ tree[c].role = r})

IsIdent(n) == n # 0 /\ tree[n].kind = "Identifier"

\* expect(x).prop(...): a member access on a call to the identifier `expect`
ExpectChain(n) ==
  LET c == CalleeOf(n) IN
  /\ c # 0 /\ tree[c].kind = "MemberExpression"
  /\ LET o == SlotOf(c, "object") IN
     /\ o # 0 /\ tree[o].kind = "CallExpression"
     /\ IsIdent(CalleeOf(o)) /\ tree[CalleeOf(o)].name = s_expect

\* ------------------------------------------------------------------------
\* C1: when some visited import has a source that does not start with
\* '@storybook/', Program:exit emits no diagnostic, however many violations
\* are queued and wherever the import stands among the calls.
\* ------------------------------------------------------------------------
C1_GateSuppressesAll ==
  (pc = "done" /\ \E n \in ImportNodes : Disqualifying(n)) => reports = <<>>

\* two violations queued first, the disqualifying import visited last
C1_Witness ==
  /\ pc = "done"
  /\ Len(invocationsThatShouldBeAwaited) >= 2
  /\ reports = <<>>
  /\ \E n \in ImportNodes :
       /\ Disqualifying(n)
       /\ \A i \in 1..Len(invocationsThatShouldBeAwaited) :
            invocationsThatShouldBeAwaited[i].node < n

\* ------------------------------------------------------------------------
\* C2: in a file without a disqualifying import, Program:exit emits exactly
\* one diagnostic for each call that is classified and not awaited and none
\* for any other call; the diagnostic is anchored at the call and its
\* `method` is the name of the identifier the classifier returned.
\* ------------------------------------------------------------------------
C2_OneDiagnosticPerViolation ==
  (pc = "done" /\ \A n \in ImportNodes : ~Disqualifying(n)) =>
    /\ \A n \in CallNodes :
         Cardinality(ReportsAt(n)) =
           IF getMethodThatShouldBeAwaited(tree, n) # 0 /\ ~AwaitedPosition(n)
           THEN 1 ELSE 0
    /\ \A i \in 1..Len(reports) :
         /\ reports[i].node \in CallNodes
         /\ reports[i].method =
              tree[getMethodThatShouldBeAwaited(tree, reports[i].node)].name

\* a matching import followed by two calls, each reported once
C2_Witness ==
  /\ pc = "done"
  /\ ImportNodes # {}
  /\ Len(reports) = 2
  /\ reports[1].method = s_play
  /\ reports[2].method = s_userEvent
  /\ reports[1].node < reports[2].node

\* ------------------------------------------------------------------------
\* C3: a classified call is queued exactly when neither its parent nor its
\* grandparent is an await expression; a call under `await` or under a
\* non-null assertion under `await` is never queued and never reported.
\* ------------------------------------------------------------------------
C3_QueuedIffNotAwaited ==
  /\ \A n \in CallNodes :
       (n <= pos /\ getMethodThatShouldBeAwaited(tree, n) # 0) =>
         (Queued(n) <=> ~AwaitedPosition(n))
  /\ \A n \in CallNodes :
       AwaitedPosition(n) => (~Queued(n) /\ ReportsAt(n) = {})

\* a classified call under a non-null assertion under await has been visited
C3_Witness ==
  /\ pc = "done"
  /\ visit.method # 0
  /\ KindOfParent(visit.node) = "TSNonNullExpression"
  /\ KindOfGrandparent(visit.node) = "AwaitExpression"
  /\ reports = <<>>

\* ------------------------------------------------------------------------
\* C4: outside return position, a call whose callee is an identifier with a
\* tracked name, or a member access whose property is an identifier with a
\* tracked name, is classified (the classifier returns an identifier); in
\* return position (parent arrow function or return statement) the
\* classifier returns nothing whatever the callee.
\* ------------------------------------------------------------------------
C4_Classification ==
  visit.node # 0 =>
    LET n == visit.node
        c == CalleeOf(n)
    IN
    /\ ReturnPosition(n) => visit.method = 0
    /\ ( /\ ~ReturnPosition(n)
         /\ \/ (IsIdent(c) /\ TrackedName(tree[c].name))
            \/ /\ c # 0 /\ tree[c].kind = "MemberExpression"
               /\ IsIdent(SlotOf(c, "property"))
               /\ TrackedName(tree[SlotOf(c, "property")].name) )
       => IsIdent(visit.method)

\* x.findByRole() visited outside return position, and classified
C4_Witness ==
  /\ visit.node # 0
  /\ ~ReturnPosition(visit.node)
  /\ tree[CalleeOf(visit.node)].kind = "MemberExpression"
  /\ IsIdent(SlotOf(CalleeOf(visit.node), "property"))
  /\ tree[SlotOf(CalleeOf(visit.node), "property")].name = s_findByRole
  /\ visit.method = SlotOf(CalleeOf(visit.node), "property")

\* ------------------------------------------------------------------------
\* C5 (as stated): over the diagnostics of one pass, a function that is not
\* asynchronous is the target of exactly one 'async ' insertion, even when
\* its body holds two or more unawaited classified calls.
\* ------------------------------------------------------------------------
C5_AsyncOncePerFunction ==
  pc = "done" =>
    \A f \in Nodes :
      Cardinality({i \in 1..Len(reports) :
                     \E k \in AsyncInsertions(i) :
                       reports[i].fix[k].target = f}) <= 1

\* C5 (amended): every emitted fix carries its own 'async ' insertion: a
\* function that is not asynchronous is targeted once by the fix of each
\* reported call whose nearest enclosing function it is, and an
\* asynchronous function is never targeted.
C5_AsyncOncePerFix ==
  pc = "done" =>
    \A f \in Nodes : \A i \in 1..Len(reports) :
      Cardinality({k \in AsyncInsertions(i) : reports[i].fix[k].target = f}) =
        IF f = Nearest(FunctionAncestors(reports[i].node)) /\ ~tree[f].async
        THEN 1 ELSE 0

\* two reported calls of one function that is not asynchronous
C5_Witness ==
  /\ pc = "done"
  /\ \E i, j \in 1..Len(reports) :
       /\ i # j
       /\ \E f \in Nodes :
            /\ ~tree[f].async
            /\ <<[target |-> reports[i].node, text |-> "await "],
                 [target |-> f, text |-> "async "]>> = reports[i].fix
            /\ <<[target |-> reports[j].node, text |-> "await "],
                 [target |-> f, text |-> "async "]>> = reports[j].fix

\* ------------------------------------------------------------------------
\* C6 (as stated): once the fix of a diagnostic has been applied, linting
\* the patched file emits no diagnostic for that call site.
\* ------------------------------------------------------------------------
C6_FixIdempotent ==
  pc = "done" => \A i \in 1..Len(reports) : reports[i].node \notin fixed

\* ------------------------------------------------------------------------
\* C7 (as stated): a call expect(x).prop(...) with an untracked property
\* name is not classified.
\* ------------------------------------------------------------------------
C7_ExpectChainNeedsTrackedName ==
  (visit.node # 0 /\ ExpectChain(visit.node)) =>
    LET p == SlotOf(CalleeOf(visit.node), "property") IN
    (IsIdent(p) /\ ~TrackedName(tree[p].name)) => visit.method = 0

\* C7 (amended): outside return position, a call expect(x).prop(...) whose
\* property is an identifier is classified whatever the property name: the
\* expect-chain branch applies no tracked-name test and returns the property
\* identifier; in return position, or with a property that is not an
\* identifier, the classifier returns nothing.
C7_ExpectChainAlwaysClassified ==
  (visit.node # 0 /\ ExpectChain(visit.node)) =>
    LET p == SlotOf(CalleeOf(visit.node), "property") IN
    visit.method = IF IsIdent(p) /\ ~ReturnPosition(visit.node) THEN p ELSE 0

\* expect().toBe() visited as a statement: classified and queued
C7_Witness ==
  /\ visit.node # 0
  /\ ExpectChain(visit.node)
  /\ KindOfParent(visit.node) = "ExpressionStatement"
  /\ tree[SlotOf(CalleeOf(visit.node), "property")].name = s_toBe
  /\ visit.method = SlotOf(CalleeOf(visit.node), "property")
  /\ Queued(visit.node)

C9_ReportOnlyAtExit ==
  /\ isImportingFromStorybookExpect = TRUE
  /\ [][ /\ (pc = "walk" /\ pc' = "walk") => (reports = <<>> /\ reports' = <<>>)
         /\ (reports' # <<>>) =>
              (pc = "walk" /\ pc' = "done" /\ isImportingFromStorybookExpect
                 /\ pos' = Len(tree))
         /\ (pc' = "walk" /\ pass' = pass) =>
              (invocationsThatShouldBeAwaited' = invocationsThatShouldBeAwaited
                 \/ Len(invocationsThatShouldBeAwaited') =
                      Len(invocationsThatShouldBeAwaited) + 1)
         /\ ~isImportingFromStorybookExpect => ~isImportingFromStorybookExpect'
     ]_vars

\* the flag is still false after a matching import followed the bad one,
\* with a violation in the queue
C9_Witness ==
  /\ pc = "done"
  /\ ~isImportingFromStorybookExpect
  /\ invocationsThatShouldBeAwaited # <<>>
  /\ reports = <<>>
  /\ \E m, n \in ImportNodes : m < n /\ Disqualifying(m) /\ ~Disqualifying(n)

\* ------------------------------------------------------------------------
\* C10: for every node, getClosestFunctionAncestor returns the nearest
\* proper ancestor that is an arrow function, a function expression or a
\* function declaration, whatever stands in between, and nothing exactly
\* when no proper ancestor is a function; it never returns the node itself
\* or a function that is not the closest one.
\* ------------------------------------------------------------------------
C10_ClosestFunction ==
  \A n \in Nodes :
    LET r == getClosestFunctionAncestor(tree, n) IN
    /\ r = Nearest(FunctionAncestors(n))
    /\ r # n
    /\ (r = 0) <=> (FunctionAncestors(n) = {})
    /\ r # 0 => \A a \in ProperAncestors(n) :
                  (a > r) => tree[a].kind \notin FunctionKinds

\* a reported call inside an inner function, two or more nodes below it,
\* whose fix targets the inner and not the outer function
C10_Witness ==
  /\ pc = "done"
  /\ \E i \in 1..Len(reports) :
       LET n == reports[i].node
           r == getClosestFunctionAncestor(tree, n)
       IN
       /\ Cardinality(FunctionAncestors(n)) >= 2
       /\ r # 0
       /\ tree[n].parent # r
       /\ tree[tree[n].parent].parent # r
       /\ \E k \in 1..Len(reports[i].fix) :
            reports[i].fix[k] = [target |-> r, text |-> "async "]

====
